---- MODULE Spec2Model ----
(***************************************************************************)
(* buf-view: BufView (read only) and BufViewMut (read and write) wrap a    *)
(* borrowed byte slice with a reader_index and a writer_index.  The model  *)
(* follows src/src/buf_view.rs, src/src/buf_view_mut.rs and                *)
(* src/src/macros.rs.                                                      *)
(*                                                                         *)
(* Offsets are the source's 0-based offsets; the buffer is a TLA+ sequence *)
(* so byte offset i is buf[i + 1].  A panic (failed assert!, slice index   *)
(* out of range, copy_from_slice length mismatch, checked arithmetic       *)
(* overflow) is a fault: the operation returns fault = TRUE and the view   *)
(* as it was at the panic.                                                 *)
(*                                                                         *)
(* Values of the primitive types: an 8 or 16 bit integer is the integer    *)
(* itself; a wider value is the sequence of its 16-bit limbs, most         *)
(* significant first (the first limb signed for the signed types), because *)
(* TLC's integers are 32 bits wide.  f32 and f64 are modelled by their     *)
(* bit patterns (f32::to_be_bytes is to_bits().to_be_bytes()).             *)
(***************************************************************************)
EXTENDS Integers, Sequences, FiniteSets, TLC

\* ----------------------------------------------------------------- bounds
\* largest capacity of a buffer the model wraps
MaxCap == 4
\* longest src / dest slice handed to the *_bytes operations
MaxLen == 3
\* width of usize in the model (the index arithmetic is modulo 2^UsizeBits)
UsizeBits == 6
\* largest capacity of a buffer that is written and then read back
FifoCap == 8
\* most writes made before the values are read back
FifoWrites == 3

RECURSIVE Pow2(_)
Pow2(n) == IF n = 0 THEN 1 ELSE 2 * Pow2(n - 1)

UsizeMod == Pow2(UsizeBits)
UsizeMax == UsizeMod - 1

\* ------------------------------------------------------- usize arithmetic
\* a + b on usize: the wrapped value and whether it overflowed.  A build with
\* overflow checks panics on ovf, a build without them goes on with val.
usize_add(a, b) == [val |-> (a + b) % UsizeMod, ovf |-> a + b > UsizeMax]
usize_sub(a, b) == [val |-> (a - b) % UsizeMod, ovf |-> a < b]

\* &s[a..b]: panics unless a <= b <= s.len()
\* a slice index that checks its end against the length but not its start
\* against its end
slice_ok_end_only(s, a, b) == b <= Len(s)

slice_ok(s, a, b) == a <= b /\ b <= Len(s)
slice(s, a, b) == SubSeq(s, a + 1, b)

\* s[a..b].copy_from_slice(src), lengths already equal
splice(s, a, src) ==
    [i \in 1..Len(s) |->
        IF i > a /\ i <= a + Len(src) THEN src[i - a] ELSE s[i]]

Reverse(s) == [i \in 1..Len(s) |-> s[Len(s) + 1 - i]]

\* ------------------------------------------------------- primitive types
Types == {"u8", "i8", "u16", "i16", "u32", "i32", "u64", "i64",
          "u128", "i128", "f32", "f64"}
\* BufViewMut has write_* / set_* for every type but i8
WriteTypes == Types \ {"i8"}
Orders == {"be", "le"}

size_of(T) ==
    CASE T \in {"u8", "i8"} -> 1
      [] T \in {"u16", "i16"} -> 2
      [] T \in {"u32", "i32", "f32"} -> 4
      [] T \in {"u64", "i64", "f64"} -> 8
      [] T \in {"u128", "i128"} -> 16

is_signed(T) == T \in {"i8", "i16", "i32", "i64", "i128"}

\* `x as i8`
as_i8(x) == IF x >= 128 THEN x - 256 ELSE x

\* 16-bit limb k of a byte string in big-endian order
limb_of(bytes, k) == bytes[2 * k - 1] * 256 + bytes[2 * k]

to_signed16(x) == IF x >= 32768 THEN x - 65536 ELSE x

\* T::from_be_bytes(bytes), Len(bytes) = size_of(T) >= 2
from_be_bytes(T, bytes) ==
    LET k == Len(bytes) \div 2
        limbs == [i \in 1..k |->
                    IF i = 1 /\ is_signed(T)
                    THEN to_signed16(limb_of(bytes, i))
                    ELSE limb_of(bytes, i)]
    IN  IF k = 1 THEN limbs[1] ELSE limbs

\* from_le_bytes reading the bytes in big-endian order
from_le_bytes_unreversed(T, bytes) == from_be_bytes(T, bytes)

\* T::from_le_bytes(bytes): the same number with the bytes in reverse order
from_le_bytes(T, bytes) == from_be_bytes(T, Reverse(bytes))

\* to_be_bytes with the two bytes of every 16-bit limb exchanged
to_be_bytes_swapped(T, val) ==
    LET k == size_of(T) \div 2
        limbs == IF k = 1 THEN <<val>> ELSE val
    IN  [i \in 1..(2 * k) |->
            LET l == limbs[(i + 1) \div 2] % 65536
            IN  IF i % 2 = 1 THEN l % 256 ELSE l \div 256]

\* val.to_be_bytes(), size_of(T) >= 2
to_be_bytes(T, val) ==
    LET k == size_of(T) \div 2
        limbs == IF k = 1 THEN <<val>> ELSE val
    IN  [i \in 1..(2 * k) |->
            LET l == limbs[(i + 1) \div 2] % 65536
            IN  IF i % 2 = 1 THEN l \div 256 ELSE l % 256]

\* to_le_bytes giving the bytes in big-endian order
to_le_bytes_unreversed(T, val) == to_be_bytes(T, val)

\* val.to_le_bytes()
to_le_bytes(T, val) == Reverse(to_be_bytes(T, val))


\* ------------------------------------------------------ operation results
\* A view is [buf, reader_index, writer_index]; an operation returns the view
\* after it, whether it panicked, and its return value.
View(b, r, w) == [buf |-> b, reader_index |-> r, writer_index |-> w]

Ok(self, ret) ==
    [fault |-> FALSE, buf |-> self.buf, reader_index |-> self.reader_index,
     writer_index |-> self.writer_index, ret |-> ret]

Fault(self) ==
    [fault |-> TRUE, buf |-> self.buf, reader_index |-> self.reader_index,
     writer_index |-> self.writer_index, ret |-> "panic"]

Unit == "unit"

\* what read_bytes / get_bytes hand back: the count and dest after the copy
Copied(n, dest) == [n |-> n, dest |-> dest]

\* ---------------------------------------------------------------- macros
\* buf_read_do! bounded by the capacity instead of remaining()
buf_read_do_to_capacity(self, left, T, order, oc) ==
    LET n == size_of(T)
        end == usize_add(self.reader_index, n)
    IN  IF end.ovf /\ oc THEN Fault(self)
        ELSE IF ~slice_ok(self.buf, self.reader_index, end.val) THEN Fault(self)
        ELSE LET bytes == slice(self.buf, self.reader_index, end.val)
                 val == IF order = "be" THEN from_be_bytes(T, bytes)
                                        ELSE from_le_bytes(T, bytes)
             IN  [Ok(self, val) EXCEPT !.reader_index = end.val]

\* buf_read_do!(self, T, be | le); left is the value of $this.remaining(),
\* oc says whether the build checks arithmetic overflow
buf_read_do(self, left, T, order, oc) ==
    LET n == size_of(T)
        end == usize_add(self.reader_index, n)
    IN  IF left.ovf /\ oc THEN Fault(self)
        ELSE IF ~(left.val >= n) THEN Fault(self)
        ELSE IF end.ovf /\ oc THEN Fault(self)
        ELSE IF ~slice_ok(self.buf, self.reader_index, end.val) THEN Fault(self)
        ELSE LET bytes == slice(self.buf, self.reader_index, end.val)
                 val == IF order = "be" THEN from_be_bytes(T, bytes)
                                        ELSE from_le_bytes(T, bytes)
             IN  [Ok(self, val) EXCEPT !.reader_index = end.val]

\* buf_get_do! bounded by writer_index instead of buf.len()
buf_get_do_to_writer(self, index, T, order, oc) ==
    LET n == size_of(T)
        end == usize_add(index, n)
    IN  IF end.ovf /\ oc THEN Fault(self)
        ELSE IF ~(self.writer_index >= end.val) THEN Fault(self)
        ELSE IF ~slice_ok(self.buf, index, end.val) THEN Fault(self)
        ELSE LET bytes == slice(self.buf, index, end.val)
                 val == IF order = "be" THEN from_be_bytes(T, bytes)
                                        ELSE from_le_bytes(T, bytes)
             IN  Ok(self, val)

\* buf_get_do!(self, index, T, be | le)
buf_get_do(self, index, T, order, oc) ==
    LET n == size_of(T)
        end == usize_add(index, n)
    IN  IF end.ovf /\ oc THEN Fault(self)
        ELSE IF ~(Len(self.buf) >= end.val) THEN Fault(self)
        ELSE IF ~slice_ok(self.buf, index, end.val) THEN Fault(self)
        ELSE LET bytes == slice(self.buf, index, end.val)
                 val == IF order = "be" THEN from_be_bytes(T, bytes)
                                        ELSE from_le_bytes(T, bytes)
             IN  Ok(self, val)

\* --------------------------------------------------------------- BufView
\* wrap_with asserting buf.len() > writer_index
BufView_wrap_with_strict(buf, reader_index, writer_index) ==
    IF ~(reader_index <= writer_index /\ Len(buf) > writer_index)
    THEN Fault(View(buf, 0, 0))
    ELSE Ok(View(buf, reader_index, writer_index), Unit)

BufView_wrap_with(buf, reader_index, writer_index) ==
    IF ~(reader_index <= writer_index /\ Len(buf) >= writer_index)
    THEN Fault(View(buf, 0, 0))
    ELSE Ok(View(buf, reader_index, writer_index), Unit)

BufView_wrap(buf) == BufView_wrap_with(buf, 0, Len(buf))

BufView_reader_index(self) == self.reader_index

BufView_writer_index(self) == self.writer_index

BufView_remaining(self) == usize_sub(self.writer_index, self.reader_index)

BufView_capacity(self) == Len(self.buf)

\* &self.buf[self.reader_index..self.writer_index]
BufView_as_slice(self) ==
    IF ~slice_ok(self.buf, self.reader_index, self.writer_index) THEN Fault(self)
    ELSE Ok(self, slice(self.buf, self.reader_index, self.writer_index))

BufView_as_raw_slice(self) == Ok(self, self.buf)

BufView_read_u8(self, oc) ==
    LET left == BufView_remaining(self)
        next == usize_add(self.reader_index, 1)
    IN  IF left.ovf /\ oc THEN Fault(self)
        ELSE IF ~(left.val >= 1) THEN Fault(self)
        ELSE IF ~(self.reader_index < Len(self.buf)) THEN Fault(self)
        ELSE IF next.ovf /\ oc THEN Fault(self)
        ELSE [Ok(self, self.buf[self.reader_index + 1])
                 EXCEPT !.reader_index = next.val]

BufView_read_i8(self, oc) ==
    LET res == BufView_read_u8(self, oc)
    IN  IF res.fault THEN res ELSE [res EXCEPT !.ret = as_i8(res.ret)]

\* read_u16 .. read_f64_le: one method per type and order, each the macro
BufView_read(self, T, order, oc) ==
    IF T = "u8" THEN BufView_read_u8(self, oc)
    ELSE IF T = "i8" THEN BufView_read_i8(self, oc)
    ELSE buf_read_do(self, BufView_remaining(self), T, order, oc)

BufView_read_bytes(self, dest, oc) ==
    LET left == BufView_remaining(self)
        copy_len == IF Len(dest) < left.val THEN Len(dest) ELSE left.val
        end == usize_add(self.reader_index, copy_len)
    IN  IF left.ovf /\ oc THEN Fault(self)
        ELSE IF ~(left.val >= Len(dest)) THEN Fault(self)
        ELSE IF end.ovf /\ oc THEN Fault(self)
        ELSE IF ~slice_ok(dest, 0, copy_len) THEN Fault(self)
        ELSE IF ~slice_ok(self.buf, self.reader_index, end.val) THEN Fault(self)
        ELSE IF end.val - self.reader_index # copy_len THEN Fault(self)
        ELSE [Ok(self, Copied(copy_len,
                    splice(dest, 0, slice(self.buf, self.reader_index, end.val))))
                 EXCEPT !.reader_index = end.val]

BufView_get_u8(self, index) ==
    IF ~(Len(self.buf) > index) THEN Fault(self)
    ELSE Ok(self, self.buf[index + 1])

BufView_get_i8(self, index) ==
    LET res == BufView_get_u8(self, index)
    IN  IF res.fault THEN res ELSE [res EXCEPT !.ret = as_i8(res.ret)]

\* get_u16 .. get_f64_le: one method per type and order, each the macro
BufView_get(self, index, T, order, oc) ==
    IF T = "u8" THEN BufView_get_u8(self, index)
    ELSE IF T = "i8" THEN BufView_get_i8(self, index)
    ELSE buf_get_do(self, index, T, order, oc)

\* get_bytes refusing a dest that reaches past the end of the buffer
BufView_get_bytes_strict(self, index, dest, oc) ==
    LET end == usize_add(index, Len(dest))
    IN  IF end.ovf /\ oc THEN Fault(self)
        ELSE IF ~(Len(self.buf) >= end.val) THEN Fault(self)
        ELSE IF ~slice_ok(self.buf, index, end.val) THEN Fault(self)
        ELSE Ok(self, Copied(Len(dest),
                    splice(dest, 0, slice(self.buf, index, end.val))))

BufView_get_bytes(self, index, dest, oc) ==
    LET sum == usize_add(index, Len(dest))
        rest == usize_sub(Len(self.buf), index)
        copy_len == IF sum.val <= Len(self.buf) THEN Len(dest) ELSE rest.val
        end == usize_add(index, copy_len)
    IN  IF ~(Len(self.buf) > index) THEN Fault(self)
        ELSE IF sum.ovf /\ oc THEN Fault(self)
        ELSE IF ~(sum.val <= Len(self.buf)) /\ rest.ovf /\ oc THEN Fault(self)
        ELSE IF ~slice_ok(dest, 0, copy_len) THEN Fault(self)
        ELSE IF end.ovf /\ oc THEN Fault(self)
        ELSE IF ~slice_ok(self.buf, index, end.val) THEN Fault(self)
        ELSE IF end.val - index # copy_len THEN Fault(self)
        ELSE Ok(self, Copied(copy_len,
                    splice(dest, 0, slice(self.buf, index, end.val))))

\* set_reader_index bounded by the capacity only
BufView_set_reader_index_to_capacity(self, index) ==
    IF ~(Len(self.buf) >= index) THEN Fault(self)
    ELSE [Ok(self, Unit) EXCEPT !.reader_index = index]

BufView_set_reader_index(self, index) ==
    IF ~(Len(self.buf) >= index /\ index <= self.writer_index) THEN Fault(self)
    ELSE [Ok(self, Unit) EXCEPT !.reader_index = index]

BufView_set_writer_index(self, index) ==
    IF ~(Len(self.buf) >= index /\ index >= self.reader_index) THEN Fault(self)
    ELSE [Ok(self, Unit) EXCEPT !.writer_index = index]

\* set_index that also refuses to move reader_index backwards
BufView_set_index_forward(self, reader_index, writer_index) ==
    IF ~(reader_index <= writer_index /\ Len(self.buf) >= writer_index
         /\ reader_index >= self.reader_index)
    THEN Fault(self)
    ELSE [Ok(self, Unit) EXCEPT !.reader_index = reader_index,
                                !.writer_index = writer_index]

BufView_set_index(self, reader_index, writer_index) ==
    IF ~(reader_index <= writer_index /\ Len(self.buf) >= writer_index)
    THEN Fault(self)
    ELSE [Ok(self, Unit) EXCEPT !.reader_index = reader_index,
                                !.writer_index = writer_index]

BufView_clear(self) ==
    [Ok(self, Unit) EXCEPT !.reader_index = 0, !.writer_index = 0]

\* --------------------------------------------------------------- BufViewMut
BufViewMut_wrap_with(buf, reader_index, writer_index) ==
    IF ~(reader_index <= writer_index /\ Len(buf) >= writer_index)
    THEN Fault(View(buf, 0, 0))
    ELSE Ok(View(buf, reader_index, writer_index), Unit)

\* BufViewMut::wrap treating the whole buffer as readable, as BufView::wrap does
BufViewMut_wrap_readable(buf) == BufViewMut_wrap_with(buf, 0, Len(buf))

BufViewMut_wrap(buf) == BufViewMut_wrap_with(buf, 0, 0)

BufViewMut_reader_index(self) == self.reader_index

BufViewMut_writer_index(self) == self.writer_index

\* remaining() counting up to the capacity instead of writer_index
BufViewMut_remaining_to_capacity(self) == usize_sub(Len(self.buf), self.reader_index)

BufViewMut_remaining(self) == usize_sub(self.writer_index, self.reader_index)

BufViewMut_capacity(self) == Len(self.buf)

\* as_slice starting at offset 0 instead of reader_index
BufViewMut_as_slice_from_start(self) ==
    IF ~slice_ok(self.buf, 0, self.writer_index) THEN Fault(self)
    ELSE Ok(self, slice(self.buf, 0, self.writer_index))

\* &mut self.buf[self.reader_index..self.writer_index]
BufViewMut_as_slice(self) ==
    IF ~slice_ok(self.buf, self.reader_index, self.writer_index) THEN Fault(self)
    ELSE Ok(self, slice(self.buf, self.reader_index, self.writer_index))

BufViewMut_as_raw_slice(self) == Ok(self, self.buf)

\* as_slice()[i] = val: a store through the mutable slice as_slice returns;
\* an i outside the slice panics
BufViewMut_as_slice_store(self, i, val) ==
    LET s == BufViewMut_as_slice(self)
    IN  IF s.fault THEN Fault(self)
        ELSE IF ~(i < Len(s.ret)) THEN Fault(self)
        ELSE [Ok(self, Unit) EXCEPT
                 !.buf = splice(self.buf, self.reader_index,
                                [s.ret EXCEPT ![i + 1] = val])]

\* read_u8 that rewinds both cursors to 0 once the last readable byte is
\* taken, giving the space back to the writes
BufViewMut_read_u8_rewinding(self, oc) ==
    LET left == BufViewMut_remaining(self)
        next == usize_add(self.reader_index, 1)
    IN  IF left.ovf /\ oc THEN Fault(self)
        ELSE IF ~(left.val >= 1) THEN Fault(self)
        ELSE IF ~(self.reader_index < Len(self.buf)) THEN Fault(self)
        ELSE IF next.ovf /\ oc THEN Fault(self)
        ELSE IF next.val = self.writer_index
             THEN [Ok(self, self.buf[self.reader_index + 1]) EXCEPT
                      !.reader_index = 0, !.writer_index = 0]
             ELSE [Ok(self, self.buf[self.reader_index + 1]) EXCEPT
                      !.reader_index = next.val]

BufViewMut_read_u8(self, oc) ==
    LET left == BufViewMut_remaining(self)
        next == usize_add(self.reader_index, 1)
    IN  IF left.ovf /\ oc THEN Fault(self)
        ELSE IF ~(left.val >= 1) THEN Fault(self)
        ELSE IF ~(self.reader_index < Len(self.buf)) THEN Fault(self)
        ELSE IF next.ovf /\ oc THEN Fault(self)
        ELSE [Ok(self, self.buf[self.reader_index + 1])
                 EXCEPT !.reader_index = next.val]

BufViewMut_read_i8(self, oc) ==
    LET res == BufViewMut_read_u8(self, oc)
    IN  IF res.fault THEN res ELSE [res EXCEPT !.ret = as_i8(res.ret)]

\* read_u16 .. read_f64_le: one method per type and order, each the macro
BufViewMut_read(self, T, order, oc) ==
    IF T = "u8" THEN BufViewMut_read_u8(self, oc)
    ELSE IF T = "i8" THEN BufViewMut_read_i8(self, oc)
    ELSE buf_read_do(self, BufViewMut_remaining(self), T, order, oc)

\* read_bytes without its assert: a short read of min(len(dest), remaining())
BufViewMut_read_bytes_clamped(self, dest, oc) ==
    LET left == BufViewMut_remaining(self)
        copy_len == IF Len(dest) < left.val THEN Len(dest) ELSE left.val
        end == usize_add(self.reader_index, copy_len)
    IN  IF left.ovf /\ oc THEN Fault(self)
        ELSE [Ok(self, Copied(copy_len,
                    splice(dest, 0, slice(self.buf, self.reader_index, end.val))))
                 EXCEPT !.reader_index = end.val]

BufViewMut_read_bytes(self, dest, oc) ==
    LET left == BufViewMut_remaining(self)
        copy_len == IF Len(dest) < left.val THEN Len(dest) ELSE left.val
        end == usize_add(self.reader_index, copy_len)
    IN  IF left.ovf /\ oc THEN Fault(self)
        ELSE IF ~(left.val >= Len(dest)) THEN Fault(self)
        ELSE IF end.ovf /\ oc THEN Fault(self)
        ELSE IF ~slice_ok(dest, 0, copy_len) THEN Fault(self)
        ELSE IF ~slice_ok(self.buf, self.reader_index, end.val) THEN Fault(self)
        ELSE IF end.val - self.reader_index # copy_len THEN Fault(self)
        ELSE [Ok(self, Copied(copy_len,
                    splice(dest, 0, slice(self.buf, self.reader_index, end.val))))
                 EXCEPT !.reader_index = end.val]

BufViewMut_get_u8(self, index) ==
    IF ~(Len(self.buf) > index) THEN Fault(self)
    ELSE Ok(self, self.buf[index + 1])

BufViewMut_get_i8(self, index) ==
    LET res == BufViewMut_get_u8(self, index)
    IN  IF res.fault THEN res ELSE [res EXCEPT !.ret = as_i8(res.ret)]

\* get_u16 .. get_f64_le: one method per type and order, each the macro
BufViewMut_get(self, index, T, order, oc) ==
    IF T = "u8" THEN BufViewMut_get_u8(self, index)
    ELSE IF T = "i8" THEN BufViewMut_get_i8(self, index)
    ELSE buf_get_do(self, index, T, order, oc)

\* get_bytes asserting buf.len() >= index, as set_bytes does for its end
BufViewMut_get_bytes_lenient(self, index, dest, oc) ==
    LET sum == usize_add(index, Len(dest))
        rest == usize_sub(Len(self.buf), index)
        copy_len == IF sum.val <= Len(self.buf) THEN Len(dest) ELSE rest.val
        end == usize_add(index, copy_len)
    IN  IF ~(Len(self.buf) >= index) THEN Fault(self)
        ELSE IF sum.ovf /\ oc THEN Fault(self)
        ELSE IF ~(sum.val <= Len(self.buf)) /\ rest.ovf /\ oc THEN Fault(self)
        ELSE IF ~slice_ok(dest, 0, copy_len) THEN Fault(self)
        ELSE IF end.ovf /\ oc THEN Fault(self)
        ELSE IF ~slice_ok(self.buf, index, end.val) THEN Fault(self)
        ELSE IF end.val - index # copy_len THEN Fault(self)
        ELSE Ok(self, Copied(copy_len,
                    splice(dest, 0, slice(self.buf, index, end.val))))

BufViewMut_get_bytes(self, index, dest, oc) ==
    LET sum == usize_add(index, Len(dest))
        rest == usize_sub(Len(self.buf), index)
        copy_len == IF sum.val <= Len(self.buf) THEN Len(dest) ELSE rest.val
        end == usize_add(index, copy_len)
    IN  IF ~(Len(self.buf) > index) THEN Fault(self)
        ELSE IF sum.ovf /\ oc THEN Fault(self)
        ELSE IF ~(sum.val <= Len(self.buf)) /\ rest.ovf /\ oc THEN Fault(self)
        ELSE IF ~slice_ok(dest, 0, copy_len) THEN Fault(self)
        ELSE IF end.ovf /\ oc THEN Fault(self)
        ELSE IF ~slice_ok(self.buf, index, end.val) THEN Fault(self)
        ELSE IF end.val - index # copy_len THEN Fault(self)
        ELSE Ok(self, Copied(copy_len,
                    splice(dest, 0, slice(self.buf, index, end.val))))

BufViewMut_set_reader_index(self, index) ==
    IF ~(Len(self.buf) >= index /\ index <= self.writer_index) THEN Fault(self)
    ELSE [Ok(self, Unit) EXCEPT !.reader_index = index]

\* set_writer_index without its `index >= self.reader_index`
BufViewMut_set_writer_index_below_reader(self, index) ==
    IF ~(Len(self.buf) >= index) THEN Fault(self)
    ELSE [Ok(self, Unit) EXCEPT !.writer_index = index]

BufViewMut_set_writer_index(self, index) ==
    IF ~(Len(self.buf) >= index /\ index >= self.reader_index) THEN Fault(self)
    ELSE [Ok(self, Unit) EXCEPT !.writer_index = index]

\* set_index assigning reader_index before it asserts
BufViewMut_set_index_eager(self, reader_index, writer_index) ==
    IF ~(reader_index <= writer_index /\ Len(self.buf) >= writer_index)
    THEN [Fault(self) EXCEPT !.reader_index = reader_index]
    ELSE [Ok(self, Unit) EXCEPT !.reader_index = reader_index,
                                !.writer_index = writer_index]

BufViewMut_set_index(self, reader_index, writer_index) ==
    IF ~(reader_index <= writer_index /\ Len(self.buf) >= writer_index)
    THEN Fault(self)
    ELSE [Ok(self, Unit) EXCEPT !.reader_index = reader_index,
                                !.writer_index = writer_index]

\* clear rewinding reader_index only
BufViewMut_clear_reader_only(self) ==
    [Ok(self, Unit) EXCEPT !.reader_index = 0]

BufViewMut_clear(self) ==
    [Ok(self, Unit) EXCEPT !.reader_index = 0, !.writer_index = 0]

\* write_u8 storing the byte without moving writer_index
BufViewMut_write_u8_in_place(self, val, oc) ==
    LET next == usize_add(self.writer_index, 1)
    IN  IF next.ovf /\ oc THEN Fault(self)
        ELSE IF ~(Len(self.buf) >= next.val) THEN Fault(self)
        ELSE IF ~(self.writer_index < Len(self.buf)) THEN Fault(self)
        ELSE [Ok(self, Unit) EXCEPT
                 !.buf = [self.buf EXCEPT ![self.writer_index + 1] = val]]

BufViewMut_write_u8(self, val, oc) ==
    LET next == usize_add(self.writer_index, 1)
    IN  IF next.ovf /\ oc THEN Fault(self)
        ELSE IF ~(Len(self.buf) >= next.val) THEN Fault(self)
        ELSE IF ~(self.writer_index < Len(self.buf)) THEN Fault(self)
        ELSE [Ok(self, Unit) EXCEPT
                 !.buf = [self.buf EXCEPT ![self.writer_index + 1] = val],
                 !.writer_index = next.val]

\* write_bytes asserting buf.len() > end
BufViewMut_write_bytes_strict(self, src, oc) ==
    LET end == usize_add(self.writer_index, Len(src))
    IN  IF end.ovf /\ oc THEN Fault(self)
        ELSE IF ~(Len(self.buf) > end.val) THEN Fault(self)
        ELSE [Ok(self, Unit) EXCEPT
                 !.buf = splice(self.buf, self.writer_index, src),
                 !.writer_index = end.val]

BufViewMut_write_bytes(self, src, oc) ==
    LET end == usize_add(self.writer_index, Len(src))
    IN  IF end.ovf /\ oc THEN Fault(self)
        ELSE IF ~(Len(self.buf) >= end.val) THEN Fault(self)
        ELSE IF ~slice_ok(self.buf, self.writer_index, end.val) THEN Fault(self)
        ELSE IF end.val - self.writer_index # Len(src) THEN Fault(self)
        ELSE [Ok(self, Unit) EXCEPT
                 !.buf = splice(self.buf, self.writer_index, src),
                 !.writer_index = end.val]

\* write_u16 .. write_f64_le: write_bytes of to_be_bytes / to_le_bytes
BufViewMut_write(self, T, order, val, oc) ==
    IF T = "u8" THEN BufViewMut_write_u8(self, val, oc)
    ELSE BufViewMut_write_bytes(self,
            IF order = "be" THEN to_be_bytes(T, val) ELSE to_le_bytes(T, val), oc)

\* write_bytes_uncheck moving writer_index past the bytes it stored
BufViewMut_write_bytes_uncheck_advancing(self, src, oc) ==
    LET sum == usize_add(self.writer_index, Len(src))
        rest == usize_sub(Len(self.buf), self.writer_index)
        copy_len == IF sum.val > Len(self.buf) THEN rest.val ELSE Len(src)
    IN  IF sum.ovf /\ oc THEN Fault(self)
        ELSE IF ~slice_ok(self.buf, self.writer_index, Len(self.buf)) THEN Fault(self)
        ELSE IF ~slice_ok(src, 0, copy_len) THEN Fault(self)
        ELSE IF Len(self.buf) - self.writer_index # copy_len THEN Fault(self)
        ELSE [Ok(self, copy_len) EXCEPT
                 !.buf = splice(self.buf, self.writer_index, slice(src, 0, copy_len)),
                 !.writer_index = self.writer_index + copy_len]

BufViewMut_write_bytes_uncheck(self, src, oc) ==
    LET sum == usize_add(self.writer_index, Len(src))
        rest == usize_sub(Len(self.buf), self.writer_index)
        copy_len == IF sum.val > Len(self.buf) THEN rest.val ELSE Len(src)
    IN  IF sum.ovf /\ oc THEN Fault(self)
        ELSE IF sum.val > Len(self.buf) /\ rest.ovf /\ oc THEN Fault(self)
        \* &mut self.buf[self.writer_index..]
        ELSE IF ~slice_ok(self.buf, self.writer_index, Len(self.buf)) THEN Fault(self)
        \* &src[..copy_len]
        ELSE IF ~slice_ok(src, 0, copy_len) THEN Fault(self)
        \* copy_from_slice panics unless both slices have the same length
        ELSE IF Len(self.buf) - self.writer_index # copy_len THEN Fault(self)
        ELSE [Ok(self, copy_len) EXCEPT
                 !.buf = splice(self.buf, self.writer_index, slice(src, 0, copy_len))]

\* io::Result::Ok(v)
IoOk(v) == [Ok |-> v]

\* impl Write for BufViewMut: write is Ok(self.write_bytes_uncheck(buf))
Write_write(self, src, oc) ==
    LET res == BufViewMut_write_bytes_uncheck(self, src, oc)
    IN  IF res.fault THEN res ELSE [res EXCEPT !.ret = IoOk(res.ret)]

Write_flush(self) == Ok(self, IoOk(Unit))

BufViewMut_set_u8(self, index, val) ==
    IF ~(Len(self.buf) > index) THEN Fault(self)
    ELSE [Ok(self, Unit) EXCEPT !.buf = [self.buf EXCEPT ![index + 1] = val]]

\* set_bytes storing as much of src as fits instead of asserting
BufViewMut_set_bytes_truncating(self, index, src, oc) ==
    LET end == usize_add(index, Len(src))
        fit == IF end.val > Len(self.buf) THEN Len(self.buf) - index ELSE Len(src)
    IN  IF end.ovf /\ oc THEN Fault(self)
        ELSE IF ~(Len(self.buf) >= index) THEN Fault(self)
        ELSE [Ok(self, Unit) EXCEPT
                 !.buf = splice(self.buf, index, slice(src, 0, fit))]

BufViewMut_set_bytes(self, index, src, oc) ==
    LET end == usize_add(index, Len(src))
    IN  IF end.ovf /\ oc THEN Fault(self)
        ELSE IF ~(Len(self.buf) >= end.val) THEN Fault(self)
        ELSE IF ~slice_ok(self.buf, index, end.val) THEN Fault(self)
        ELSE IF end.val - index # Len(src) THEN Fault(self)
        ELSE [Ok(self, Unit) EXCEPT !.buf = splice(self.buf, index, src)]

\* set_u16 .. set_f64_le: set_bytes of to_be_bytes / to_le_bytes
BufViewMut_set(self, index, T, order, val, oc) ==
    IF T = "u8" THEN BufViewMut_set_u8(self, index, val)
    ELSE BufViewMut_set_bytes(self, index,
            IF order = "be" THEN to_be_bytes(T, val) ELSE to_le_bytes(T, val), oc)


\* ------------------------------------------------------------------ inputs
\* the byte values the buffers and the written values are built from
Bytes == {1, 255}

\* u8 and i8 have no _le variant
OrdersOf(T) == IF size_of(T) = 1 THEN {"be"} ELSE Orders

\* two values per type: 0x01FF.. and 0xFF01.., so the two byte orders and the
\* two signs differ
Values(T) ==
    LET k == size_of(T) \div 2
        hi == IF is_signed(T) THEN -255 ELSE 65281
    IN  IF size_of(T) = 1 THEN Bytes
        ELSE IF k = 1 THEN {511, hi}
        ELSE {[i \in 1..k |-> IF i = 1 THEN 511 ELSE 65535],
              [i \in 1..k |-> IF i = 1 THEN hi ELSE 257]}

\* ------------------------------------------------------------------- state
VARIABLES
    kind,            \* "none" before construction, then "BufView" or "BufViewMut"
    buf,             \* the borrowed byte slice
    reader_index,
    writer_index,
    pc,              \* "new": no view yet; "live": the caller is about to call;
                     \* "returned": a call has just returned; "fault": it panicked
    last,            \* the call that just returned or panicked: its arguments,
                     \* its outcome and the view before it
    journal          \* the values written since the view was wrapped and the
                     \* values read back; kept by SpecFifo only

vars == <<kind, buf, reader_index, writer_index, pc, last, journal>>

self == View(buf, reader_index, writer_index)

\* The model wraps two families of buffers: the small ones, of every length
\* up to MaxCap and every content over Bytes, on which every call is made with
\* every type, offset and length; and a wide one that just holds the widest
\* type, on which the calls are the 8 and 16 byte ones at 8 byte offsets.
WideCap == size_of("u128")
WideTypes == {T \in Types : size_of(T) >= size_of("u64")}
Wide == Len(buf) > MaxCap

TypesIn == IF Wide THEN WideTypes ELSE Types

\* offsets handed to the operations: around the buffer and at the top of usize
Indexes ==
    {i \in 0..(Len(buf) + 1) : ~Wide \/ i % size_of("u64") = 0 \/ i > Len(buf)}
        \cup {UsizeMax - 1, UsizeMax}

\* lengths of the src and dest slices
Lens == IF Wide THEN {size_of(T) : T \in WideTypes} ELSE 0..MaxLen

\* src slices: a first byte and then the other byte value
Srcs == {[i \in 1..n |-> IF i = 1 THEN b ELSE 256 - b] : n \in Lens, b \in Bytes}

\* dest slices come zero-filled
Dests == {[i \in 1..n |-> 0] : n \in Lens}

\* the buffers the views are constructed over
Buffers ==
    UNION {[1..n -> Bytes] : n \in 0..MaxCap}
        \cup {[i \in 1..WideCap |-> IF i % 2 = 1 THEN b ELSE 256 - b] : b \in Bytes}

Call(op, T, order, index, arg) ==
    [op |-> op, typ |-> T, order |-> order, index |-> index, arg |-> arg]

Done(call, res, before) ==
    [op |-> call.op, typ |-> call.typ, order |-> call.order,
     index |-> call.index, arg |-> call.arg,
     fault |-> res.fault, ret |-> res.ret, pre |-> before]

\* no call to look at
Idle == [op |-> "none"]

\* nothing written, nothing read back
NoJournal == [written |-> <<>>, read |-> <<>>, old |-> 0]

Init ==
    /\ kind = "none"
    /\ pc = "new"
    /\ buf \in Buffers
    /\ reader_index = 0
    /\ writer_index = 0
    /\ last = Idle
    /\ journal = NoJournal

\* the view after a call, or the panic
Step(call, res) ==
    /\ buf' = res.buf
    /\ reader_index' = res.reader_index
    /\ writer_index' = res.writer_index
    /\ pc' = IF res.fault THEN "fault" ELSE "returned"
    /\ last' = Done(call, res, self)
    /\ UNCHANGED journal

Construct(k, call, res) ==
    /\ kind' = IF res.fault THEN kind ELSE k
    /\ Step(call, res)

Wrap ==
    /\ pc = "new"
    /\ \E k \in {"BufView", "BufViewMut"} :
        Construct(k, Call("wrap", "-", "-", 0, 0),
                  IF k = "BufView" THEN BufView_wrap(buf) ELSE BufViewMut_wrap(buf))

WrapWith ==
    /\ pc = "new"
    /\ \E k \in {"BufView", "BufViewMut"}, r \in Indexes, w \in Indexes :
        Construct(k, Call("wrap_with", "-", "-", r, w),
                  IF k = "BufView" THEN BufView_wrap_with(buf, r, w)
                                   ELSE BufViewMut_wrap_with(buf, r, w))

\* a method call on the live view
Method(call, res) ==
    /\ UNCHANGED kind
    /\ Step(call, res)

Read ==
    /\ pc = "live"
    /\ \E T \in TypesIn, oc \in BOOLEAN : \E order \in OrdersOf(T) :
        Method(Call("read", T, order, 0, 0),
               IF kind = "BufView" THEN BufView_read(self, T, order, oc)
                                   ELSE BufViewMut_read(self, T, order, oc))

ReadBytes ==
    /\ pc = "live"
    /\ \E dest \in Dests, oc \in BOOLEAN :
        Method(Call("read_bytes", "-", "-", 0, dest),
               IF kind = "BufView" THEN BufView_read_bytes(self, dest, oc)
                                   ELSE BufViewMut_read_bytes(self, dest, oc))

Get ==
    /\ pc = "live"
    /\ \E T \in TypesIn, index \in Indexes, oc \in BOOLEAN : \E order \in OrdersOf(T) :
        Method(Call("get", T, order, index, 0),
               IF kind = "BufView" THEN BufView_get(self, index, T, order, oc)
                                   ELSE BufViewMut_get(self, index, T, order, oc))

GetBytes ==
    /\ pc = "live"
    /\ \E index \in Indexes, dest \in Dests, oc \in BOOLEAN :
        Method(Call("get_bytes", "-", "-", index, dest),
               IF kind = "BufView" THEN BufView_get_bytes(self, index, dest, oc)
                                   ELSE BufViewMut_get_bytes(self, index, dest, oc))

Write ==
    /\ pc = "live"
    /\ kind = "BufViewMut"
    /\ \E T \in WriteTypes \cap TypesIn, oc \in BOOLEAN :
        \E order \in OrdersOf(T), val \in Values(T) :
            Method(Call("write", T, order, 0, val),
                   BufViewMut_write(self, T, order, val, oc))

WriteBytes ==
    /\ pc = "live"
    /\ kind = "BufViewMut"
    /\ \E src \in Srcs, oc \in BOOLEAN :
            Method(Call("write_bytes", "-", "-", 0, src),
                   BufViewMut_write_bytes(self, src, oc))

WriteBytesUncheck ==
    /\ pc = "live"
    /\ kind = "BufViewMut"
    /\ \E src \in Srcs, oc \in BOOLEAN :
            Method(Call("write_bytes_uncheck", "-", "-", 0, src),
                   BufViewMut_write_bytes_uncheck(self, src, oc))

Set ==
    /\ pc = "live"
    /\ kind = "BufViewMut"
    /\ \E T \in WriteTypes \cap TypesIn, index \in Indexes, oc \in BOOLEAN :
        \E order \in OrdersOf(T), val \in Values(T) :
            Method(Call("set", T, order, index, val),
                   BufViewMut_set(self, index, T, order, val, oc))

SetBytes ==
    /\ pc = "live"
    /\ kind = "BufViewMut"
    /\ \E index \in Indexes, src \in Srcs, oc \in BOOLEAN :
            Method(Call("set_bytes", "-", "-", index, src),
                   BufViewMut_set_bytes(self, index, src, oc))

SetReaderIndex ==
    /\ pc = "live"
    /\ \E index \in Indexes :
        Method(Call("set_reader_index", "-", "-", index, 0),
               IF kind = "BufView" THEN BufView_set_reader_index(self, index)
                                   ELSE BufViewMut_set_reader_index(self, index))

SetWriterIndex ==
    /\ pc = "live"
    /\ \E index \in Indexes :
        Method(Call("set_writer_index", "-", "-", index, 0),
               IF kind = "BufView" THEN BufView_set_writer_index(self, index)
                                   ELSE BufViewMut_set_writer_index(self, index))

SetIndex ==
    /\ pc = "live"
    /\ \E r \in Indexes, w \in Indexes :
        Method(Call("set_index", "-", "-", r, w),
               IF kind = "BufView" THEN BufView_set_index(self, r, w)
                                   ELSE BufViewMut_set_index(self, r, w))

Clear ==
    /\ pc = "live"
    /\ Method(Call("clear", "-", "-", 0, 0),
           IF kind = "BufView" THEN BufView_clear(self) ELSE BufViewMut_clear(self))

\* remaining(): the subtraction panics on underflow in a build that checks it
Remaining ==
    /\ pc = "live"
    /\ \E oc \in BOOLEAN :
        LET left == IF kind = "BufView" THEN BufView_remaining(self)
                                        ELSE BufViewMut_remaining(self)
        IN  Method(Call("remaining", "-", "-", 0, 0),
                   IF left.ovf /\ oc THEN Fault(self) ELSE Ok(self, left.val))

Capacity ==
    /\ pc = "live"
    /\ Method(Call("capacity", "-", "-", 0, 0),
              Ok(self, IF kind = "BufView" THEN BufView_capacity(self)
                                           ELSE BufViewMut_capacity(self)))

ReaderIndex ==
    /\ pc = "live"
    /\ Method(Call("reader_index", "-", "-", 0, 0),
              Ok(self, IF kind = "BufView" THEN BufView_reader_index(self)
                                           ELSE BufViewMut_reader_index(self)))

WriterIndex ==
    /\ pc = "live"
    /\ Method(Call("writer_index", "-", "-", 0, 0),
              Ok(self, IF kind = "BufView" THEN BufView_writer_index(self)
                                           ELSE BufViewMut_writer_index(self)))

AsSlice ==
    /\ pc = "live"
    /\ Method(Call("as_slice", "-", "-", 0, 0),
              IF kind = "BufView" THEN BufView_as_slice(self)
                                  ELSE BufViewMut_as_slice(self))

AsRawSlice ==
    /\ pc = "live"
    /\ Method(Call("as_raw_slice", "-", "-", 0, 0),
              IF kind = "BufView" THEN BufView_as_raw_slice(self)
                                  ELSE BufViewMut_as_raw_slice(self))

\* the caller stores a byte through the slice a BufViewMut's as_slice returns
\* (on the small buffers: the wide one is kept for the wide types)
AsSliceStore ==
    /\ pc = "live"
    /\ kind = "BufViewMut"
    /\ ~Wide
    /\ \E i \in 0..(writer_index - reader_index), val \in Bytes :
        Method(Call("as_slice_store", "u8", "be", i, val),
               BufViewMut_as_slice_store(self, i, val))

\* std::io::Write::write on a BufViewMut
IoWrite ==
    /\ pc = "live"
    /\ kind = "BufViewMut"
    /\ \E src \in Srcs, oc \in BOOLEAN :
            Method(Call("io_write", "-", "-", 0, src), Write_write(self, src, oc))

\* std::io::Write::flush on a BufViewMut
IoFlush ==
    /\ pc = "live"
    /\ kind = "BufViewMut"
    /\ Method(Call("io_flush", "-", "-", 0, 0), Write_flush(self))

\* the caller takes the result and goes on
Return ==
    /\ pc = "returned"
    /\ pc' = "live"
    /\ last' = Idle
    /\ UNCHANGED <<kind, buf, reader_index, writer_index, journal>>

Next ==
    \/ Wrap
    \/ WrapWith
    \/ Read
    \/ ReadBytes
    \/ Get
    \/ GetBytes
    \/ Write
    \/ WriteBytes
    \/ WriteBytesUncheck
    \/ Set
    \/ SetBytes
    \/ SetReaderIndex
    \/ SetWriterIndex
    \/ SetIndex
    \/ Clear
    \/ Remaining
    \/ Capacity
    \/ ReaderIndex
    \/ WriterIndex
    \/ AsSlice
    \/ AsRawSlice
    \/ AsSliceStore
    \/ IoWrite
    \/ IoFlush
    \/ Return

Spec == Init /\ [][Next]_vars


\* ------------------------------------------------- writing and reading back
\* A BufViewMut is wrapped, values are written to it and then read back with
\* the reads of the same types, as src/tests/buf_view_mut.rs does.  journal
\* keeps what was written (with the offset it went to) and what the reads
\* returned; bytes that wrap_with made readable count as u8 values written
\* before, journal.old of them.
FifoBuffers == {[i \in 1..n |-> IF i % 2 = 1 THEN 1 ELSE 255] : n \in 0..FifoCap}

\* one type of each width that fits, signed and unsigned, integer and float
FifoTypes == {T \in {"u8", "i16", "u32", "f64"} : size_of(T) <= FifoCap}

\* an empty src, a single byte and a src of the greatest length
FifoSrcs == {[i \in 1..n |-> IF i = 1 THEN 1 ELSE 255] : n \in {0, 1, MaxLen}}

Entry(T, order, val, at) == [typ |-> T, order |-> order, val |-> val, at |-> at]

FifoInit ==
    /\ kind = "none"
    /\ pc = "new"
    /\ buf \in FifoBuffers
    /\ reader_index = 0
    /\ writer_index = 0
    /\ last = Idle
    /\ journal = NoJournal

FifoStep(op, res, phase, written, read) ==
    /\ buf' = res.buf
    /\ reader_index' = res.reader_index
    /\ writer_index' = res.writer_index
    /\ pc' = IF res.fault THEN "fault" ELSE phase
    /\ last' = [op |-> op, fault |-> res.fault]
    /\ journal' = IF res.fault THEN journal
                  ELSE [journal EXCEPT !.written = @ \o written, !.read = @ \o read]
    /\ UNCHANGED kind

FifoWrap ==
    /\ pc = "new"
    /\ kind' = "BufViewMut"
    /\ LET res == BufViewMut_wrap(buf)
       IN  /\ buf' = res.buf
           /\ reader_index' = res.reader_index
           /\ writer_index' = res.writer_index
    /\ pc' = "writing"
    /\ UNCHANGED <<last, journal>>

\* wrap_with over a buffer of which the first byte may already be readable
\* or already read
FifoWrapWith ==
    /\ pc = "new"
    /\ \E w \in {i \in {0, size_of("u8")} : i <= Len(buf)} : \E r \in 0..w :
        LET res == BufViewMut_wrap_with(buf, r, w)
        IN  /\ kind' = "BufViewMut"
            /\ buf' = res.buf
            /\ reader_index' = res.reader_index
            /\ writer_index' = res.writer_index
            /\ pc' = "writing"
            /\ journal' = [written |-> [i \in 1..(w - r) |->
                                          Entry("u8", "be", buf[r + i], r + i - 1)],
                           read |-> <<>>,
                           old |-> w - r]
            /\ UNCHANGED last

FifoWrite ==
    /\ pc = "writing"
    /\ Len(journal.written) < journal.old + FifoWrites
    /\ \E T \in FifoTypes, oc \in BOOLEAN :
        \E order \in OrdersOf(T), val \in Values(T) :
            FifoStep("write",
                     BufViewMut_write(self, T, order, val, oc), "writing",
                     <<Entry(T, order, val, writer_index)>>, <<>>)

FifoWriteBytes ==
    /\ pc = "writing"
    /\ Len(journal.written) < journal.old + FifoWrites
    /\ \E src \in FifoSrcs, oc \in BOOLEAN :
            FifoStep("write_bytes",
                     BufViewMut_write_bytes(self, src, oc), "writing",
                     <<Entry("bytes", "-", src, writer_index)>>, <<>>)

\* the read that matches the oldest value not yet read back
FifoRead ==
    /\ pc \in {"writing", "reading"}
    /\ Len(journal.read) < Len(journal.written)
    /\ \E oc \in BOOLEAN :
        LET e == journal.written[Len(journal.read) + 1]
        IN  IF e.typ = "bytes"
            THEN LET dest == [i \in 1..Len(e.val) |-> 0]
                     res == BufViewMut_read_bytes(self, dest, oc)
                 IN  FifoStep("read_bytes", res, "reading",
                              <<>>, IF res.fault THEN <<>> ELSE <<res.ret.dest>>)
            ELSE LET res == BufViewMut_read(self, e.typ, e.order, oc)
                 IN  FifoStep("read", res, "reading",
                              <<>>, IF res.fault THEN <<>> ELSE <<res.ret>>)

FifoNext ==
    \/ FifoWrap
    \/ FifoWrapWith
    \/ FifoWrite
    \/ FifoWriteBytes
    \/ FifoRead

SpecFifo == FifoInit /\ [][FifoNext]_vars

\* ------------------------------------- sequential reads and writes only
\* A view is constructed and then used with the sequential operations alone
\* (read_*, read_bytes, write_*, write_bytes): no cursor setter, no clear.
\* journal counts the bytes read and written since construction, the
\* operations of one byte or more that returned, and keeps the remaining()
\* and writer_index the view started with.
Tally(got, wrote, ops, left0, w0) ==
    [got |-> got, wrote |-> wrote, ops |-> ops, left0 |-> left0, w0 |-> w0]

SeqInit ==
    /\ kind = "none"
    /\ pc = "new"
    /\ buf \in Buffers
    /\ reader_index = 0
    /\ writer_index = 0
    /\ last = Idle
    /\ journal = NoJournal

SeqConstruct(k, call, res) ==
    /\ kind' = IF res.fault THEN kind ELSE k
    /\ buf' = res.buf
    /\ reader_index' = res.reader_index
    /\ writer_index' = res.writer_index
    /\ pc' = IF res.fault THEN "fault" ELSE "live"
    /\ last' = [op |-> call.op, fault |-> res.fault]
    /\ journal' = Tally(0, 0, 0, res.writer_index - res.reader_index,
                        res.writer_index)

SeqWrap ==
    /\ pc = "new"
    /\ \E k \in {"BufView", "BufViewMut"} :
        SeqConstruct(k, Call("wrap", "-", "-", 0, 0),
                     IF k = "BufView" THEN BufView_wrap(buf) ELSE BufViewMut_wrap(buf))

SeqWrapWith ==
    /\ pc = "new"
    /\ \E k \in {"BufView", "BufViewMut"}, r \in Indexes, w \in Indexes :
        SeqConstruct(k, Call("wrap_with", "-", "-", r, w),
                     IF k = "BufView" THEN BufView_wrap_with(buf, r, w)
                                      ELSE BufViewMut_wrap_with(buf, r, w))

\* a sequential operation of n bytes: a read when got = 1, a write when
\* wrote = 1; last keeps whether it was a read or a write
SeqStep(call, res, n, got, wrote) ==
    /\ UNCHANGED kind
    /\ buf' = res.buf
    /\ reader_index' = res.reader_index
    /\ writer_index' = res.writer_index
    /\ pc' = IF res.fault THEN "fault" ELSE "live"
    /\ last' = [op |-> IF got = 1 THEN "read" ELSE "write", fault |-> res.fault]
    /\ journal' = IF res.fault THEN journal
                  ELSE [journal EXCEPT !.got = @ + got * n,
                                       !.wrote = @ + wrote * n,
                                       !.ops = @ + (IF n >= 1 THEN 1 ELSE 0)]

SeqRead ==
    /\ pc = "live"
    /\ \E T \in TypesIn, oc \in BOOLEAN : \E order \in OrdersOf(T) :
        SeqStep(Call("read", T, order, 0, 0),
                IF kind = "BufView" THEN BufView_read(self, T, order, oc)
                                    ELSE BufViewMut_read(self, T, order, oc),
                size_of(T), 1, 0)

SeqReadBytes ==
    /\ pc = "live"
    /\ \E dest \in Dests, oc \in BOOLEAN :
        SeqStep(Call("read_bytes", "-", "-", 0, dest),
                IF kind = "BufView" THEN BufView_read_bytes(self, dest, oc)
                                    ELSE BufViewMut_read_bytes(self, dest, oc),
                Len(dest), 1, 0)

SeqWrite ==
    /\ pc = "live"
    /\ kind = "BufViewMut"
    /\ \E T \in WriteTypes \cap TypesIn, oc \in BOOLEAN :
        \E order \in OrdersOf(T), val \in Values(T) :
            SeqStep(Call("write", T, order, 0, val),
                    BufViewMut_write(self, T, order, val, oc),
                    size_of(T), 0, 1)

SeqWriteBytes ==
    /\ pc = "live"
    /\ kind = "BufViewMut"
    /\ \E src \in Srcs, oc \in BOOLEAN :
            SeqStep(Call("write_bytes", "-", "-", 0, src),
                    BufViewMut_write_bytes(self, src, oc),
                    Len(src), 0, 1)

SeqNext ==
    \/ SeqWrap
    \/ SeqWrapWith
    \/ SeqRead
    \/ SeqReadBytes
    \/ SeqWrite
    \/ SeqWriteBytes

SpecSeq == SeqInit /\ [][SeqNext]_vars

\* ------------------------------------------------------------ the claims
\* a call has returned or panicked, and last describes it
Called(op) == pc \in {"returned", "fault"} /\ last.op = op
Returned(op) == pc = "returned" /\ last.op = op /\ ~last.fault

Min(a, b) == IF a < b THEN a ELSE b

\* the bytes a value of type T occupies, and the value a byte string holds
Encoded(T, order, val) ==
    IF size_of(T) = 1 THEN <<val>>
    ELSE IF order = "be" THEN to_be_bytes(T, val) ELSE to_le_bytes(T, val)

Decoded(T, order, bytes) ==
    IF T = "u8" THEN bytes[1]
    ELSE IF T = "i8" THEN as_i8(bytes[1])
    ELSE IF order = "be" THEN from_be_bytes(T, bytes) ELSE from_le_bytes(T, bytes)

\* every byte of the buffer outside [from, to) is as it was before the call
SameOutside(from, to) ==
    /\ Len(buf) = Len(last.pre.buf)
    /\ \A i \in 1..Len(buf) : (i <= from \/ i > to) => buf[i] = last.pre.buf[i]

\* C1: on both views, after construction and after every operation,
\* 0 <= reader_index <= writer_index <= capacity, and no call changes the
\* capacity.
C1_CursorInvariant ==
    /\ pc \in {"live", "returned"} =>
        /\ kind \in {"BufView", "BufViewMut"}
        /\ 0 <= reader_index
        /\ reader_index <= writer_index
        /\ writer_index <= Len(buf)
    /\ pc \in {"returned", "fault"} => Len(buf) = Len(last.pre.buf)

\* a sequential read has emptied a view that was full to its capacity
C1_Witness ==
    /\ Returned("read")
    /\ Len(buf) > 1
    /\ reader_index = Len(buf)
    /\ writer_index = Len(buf)

\* C2: wrap_with(buffer, r, w) on either view succeeds exactly when
\* r <= w <= capacity and then gives a view with those cursors over the
\* buffer; otherwise it faults and there is no view.
C2_WrapWith ==
    Called("wrap_with") =>
        LET r == last.index
            w == last.arg
        IN  /\ ~last.fault <=> (r <= w /\ w <= Len(last.pre.buf))
            /\ ~last.fault =>
                /\ pc = "returned"
                /\ kind \in {"BufView", "BufViewMut"}
                /\ reader_index = r
                /\ writer_index = w
                /\ buf = last.pre.buf
            /\ last.fault => pc = "fault" /\ kind = "none"

\* the doc example's cursors: BufViewMut::wrap_with(buf, 1, 3)
C2_Witness ==
    /\ Returned("wrap_with")
    /\ kind = "BufViewMut"
    /\ reader_index = 1
    /\ writer_index = 3

\* C3: a sequential read of a type of width n succeeds exactly when
\* writer_index - reader_index >= n; it then returns the value decoded from
\* the bytes [reader_index, reader_index + n), moves reader_index by n and
\* leaves writer_index and the buffer alone, so it stays below writer_index.
C3_SequentialRead ==
    Called("read") =>
        LET n == size_of(last.typ)
            r == last.pre.reader_index
            w == last.pre.writer_index
        IN  /\ ~last.fault <=> (w - r >= n)
            /\ ~last.fault =>
                /\ last.ret = Decoded(last.typ, last.order,
                                      slice(last.pre.buf, r, r + n))
                /\ reader_index = r + n
                /\ reader_index <= writer_index
                /\ writer_index = w
                /\ buf = last.pre.buf

\* a multi-byte little-endian read from the middle of the readable bytes
C3_Witness ==
    /\ Returned("read")
    /\ last.typ = "i16"
    /\ last.order = "le"
    /\ last.pre.reader_index = 1
    /\ writer_index = 3
    /\ last.ret < 0

\* C4: on BufViewMut a sequential write of n bytes (write_<T>[_le](v) or
\* write_bytes(src)) succeeds exactly when capacity - writer_index >= n; it
\* then puts the n bytes at [writer_index, writer_index + n), moves
\* writer_index by n, and leaves reader_index and every other byte alone.
C4_SequentialWrite ==
    (Called("write") \/ Called("write_bytes")) =>
        LET bytes == IF last.op = "write"
                     THEN Encoded(last.typ, last.order, last.arg)
                     ELSE last.arg
            n == Len(bytes)
            w == last.pre.writer_index
        IN  /\ kind = "BufViewMut"
            /\ ~last.fault <=> (Len(last.pre.buf) - w >= n)
            /\ ~last.fault =>
                /\ slice(buf, w, w + n) = bytes
                /\ writer_index = w + n
                /\ reader_index = last.pre.reader_index
                /\ SameOutside(w, w + n)

\* a write of a 4-byte value that exactly fills the rest of the buffer
C4_Witness ==
    /\ Returned("write")
    /\ last.typ = "u32"
    /\ last.pre.writer_index = 0
    /\ writer_index = Len(buf)
    /\ buf # last.pre.buf

\* write_u8 on a full view (Scenario D)
C4_WitnessFull ==
    /\ Called("write")
    /\ last.typ = "u8"
    /\ last.pre.writer_index = Len(buf)
    /\ last.fault

\* C5: a random-access get of width n at index succeeds exactly when
\* index + n <= capacity, wherever the cursors are (for get_u8 and get_i8
\* that is index < capacity); it changes neither cursor nor any byte.
C5_RandomGet ==
    Called("get") =>
        /\ ~last.fault <=> (last.index + size_of(last.typ) <= Len(last.pre.buf))
        /\ size_of(last.typ) = 1 =>
            (~last.fault <=> last.index < Len(last.pre.buf))
        /\ ~last.fault =>
            /\ reader_index = last.pre.reader_index
            /\ writer_index = last.pre.writer_index
            /\ buf = last.pre.buf

\* a get of bytes that lie at and after writer_index, not readable sequentially
C5_Witness ==
    /\ Returned("get")
    /\ last.typ = "u16"
    /\ last.index >= writer_index
    /\ last.index + 2 = Len(buf)
    /\ reader_index = writer_index

\* C6 as stated: whenever write_<T>[_le](v) is permitted, the read of the same
\* type and order that follows it returns v.
C6_WriteThenRead ==
    Returned("write") =>
        \A oc \in BOOLEAN :
            LET res == BufViewMut_read(self, last.typ, last.order, oc)
            IN  ~res.fault /\ res.ret = last.arg

\* C6 amended: whenever write_<T>[_le](v) is permitted on a view with nothing
\* left to read (reader_index = writer_index), the read of the same type and
\* order that follows it returns v.
C6_WriteThenReadEmpty ==
    (Returned("write") /\ last.pre.reader_index = last.pre.writer_index) =>
        \A oc \in BOOLEAN :
            LET res == BufViewMut_read(self, last.typ, last.order, oc)
            IN  ~res.fault /\ res.ret = last.arg

\* a 16-byte little-endian value written to an empty view
C6_Witness ==
    /\ Returned("write")
    /\ last.typ = "i128"
    /\ last.order = "le"
    /\ last.pre.reader_index = last.pre.writer_index
    /\ last.arg[1] < 0

\* C7: on BufViewMut, for any content and cursors, get_<T>[_le](i) right
\* after a permitted set_<T>[_le](i, v) returns v.
C7_SetThenGet ==
    Returned("set") =>
        \A oc \in BOOLEAN :
            LET res == BufViewMut_get(self, last.index, last.typ, last.order, oc)
            IN  ~res.fault /\ res.ret = last.arg

\* an 8-byte set beyond writer_index that changed the buffer
C7_Witness ==
    /\ Returned("set")
    /\ last.typ = "f64"
    /\ last.order = "le"
    /\ last.index >= writer_index
    /\ last.index > 0
    /\ buf # last.pre.buf

\* C8: read_bytes(dest) faults whenever remaining() < len(dest); otherwise it
\* copies the len(dest) bytes at [reader_index, reader_index + len(dest)) into
\* dest, moves reader_index by len(dest) and returns len(dest), never less.
C8_ReadBytesStrict ==
    Called("read_bytes") =>
        LET n == Len(last.arg)
            r == last.pre.reader_index
        IN  /\ last.fault <=> (last.pre.writer_index - r < n)
            /\ ~last.fault =>
                /\ last.ret.n = n
                /\ last.ret.dest = slice(last.pre.buf, r, r + n)
                /\ reader_index = r + n
                /\ writer_index = last.pre.writer_index
                /\ buf = last.pre.buf

\* a dest shorter than what remains is filled and bytes are left over
C8_Witness ==
    /\ Returned("read_bytes")
    /\ last.ret.n = 2
    /\ last.pre.reader_index = 1
    /\ writer_index - reader_index = 1

\* a dest one byte longer than what remains: a fault, not a short read
C8_WitnessShort ==
    /\ Called("read_bytes")
    /\ last.fault
    /\ Len(last.arg) = writer_index - reader_index + 1
    /\ writer_index > reader_index

\* C9: get_bytes(index, dest) faults exactly when index >= capacity; for
\* index < capacity it copies min(len(dest), capacity - index) bytes from
\* index to the front of dest, returns that count and moves no cursor.
C9_GetBytesClamped ==
    Called("get_bytes") =>
        LET cap == Len(last.pre.buf)
            n == Min(Len(last.arg), cap - last.index)
        IN  /\ last.fault <=> (last.index >= cap)
            /\ ~last.fault =>
                /\ last.ret.n = n
                /\ Len(last.ret.dest) = Len(last.arg)
                /\ slice(last.ret.dest, 0, n) =
                       slice(last.pre.buf, last.index, last.index + n)
                /\ \A i \in (n + 1)..Len(last.arg) : last.ret.dest[i] = last.arg[i]
                /\ reader_index = last.pre.reader_index
                /\ writer_index = last.pre.writer_index
                /\ buf = last.pre.buf

\* a dest that reaches past the end of the buffer gets a truncated copy
C9_Witness ==
    /\ Returned("get_bytes")
    /\ Len(last.arg) = 3
    /\ last.ret.n = 1
    /\ last.index = Len(buf) - 1
    /\ last.index > 0

\* C10: write_bytes_uncheck(src) never faults: it copies the first
\* min(len(src), capacity - writer_index) bytes of src to writer_index and
\* returns that count.
C10_UncheckNeverFaults ==
    Called("write_bytes_uncheck") =>
        LET w == last.pre.writer_index
            n == Min(Len(last.arg), Len(last.pre.buf) - w)
        IN  /\ ~last.fault
            /\ last.ret = n
            /\ slice(buf, w, w + n) = slice(last.arg, 0, n)

C12_RandomSet ==
    /\ Called("set") =>
        LET n == size_of(last.typ)
            fits == last.index + n <= Len(last.pre.buf)
        IN  /\ last.fault <=> ~fits
            /\ ~last.fault =>
                /\ slice(buf, last.index, last.index + n) =
                       Encoded(last.typ, last.order, last.arg)
                /\ SameOutside(last.index, last.index + n)
                /\ reader_index = last.pre.reader_index
                /\ writer_index = last.pre.writer_index
    /\ Called("set_bytes") =>
        LET n == Len(last.arg)
            fits == last.index + n <= Len(last.pre.buf)
        IN  /\ last.fault <=> ~fits
            /\ ~last.fault =>
                /\ slice(buf, last.index, last.index + n) = last.arg
                /\ SameOutside(last.index, last.index + n)
                /\ reader_index = last.pre.reader_index
                /\ writer_index = last.pre.writer_index

\* a two-byte set_bytes returned at an offset at or after writer_index
C12_Witness ==
    /\ Returned("set_bytes")
    /\ Len(last.arg) = 2
    /\ last.index >= writer_index
    /\ buf # last.pre.buf

\* a set_bytes that reaches one byte past the capacity faulted
C12_WitnessFault ==
    /\ Called("set_bytes")
    /\ last.fault
    /\ last.index + Len(last.arg) = Len(last.pre.buf) + 1
    /\ last.index < Len(last.pre.buf)

\* every sequential read of one byte or more faults on the view
NothingReadable(view) ==
    /\ \A T \in Types, oc \in BOOLEAN : \A order \in OrdersOf(T) :
           BufViewMut_read(view, T, order, oc).fault
    /\ \A dest \in Dests, oc \in BOOLEAN :
           Len(dest) >= 1 => BufViewMut_read_bytes(view, dest, oc).fault

\* C13: BufView::wrap(buf) gives reader_index = 0, writer_index = capacity;
\* BufViewMut::wrap(buf) gives reader_index = 0, writer_index = 0, so every
\* sequential read of width >= 1 on a fresh BufViewMut faults, and goes on
\* faulting until a write or a cursor setter raises writer_index.
C13_WrapAsymmetric ==
    /\ Called("wrap") =>
        /\ ~last.fault
        /\ buf = last.pre.buf
        /\ reader_index = 0
        /\ kind = "BufView" => writer_index = Len(buf)
        /\ kind = "BufViewMut" => writer_index = 0 /\ NothingReadable(self)
    /\ (kind = "BufViewMut" /\ pc \in {"live", "returned"} /\ writer_index = 0)
           => NothingReadable(self)
    /\ (kind = "BufViewMut" /\ pc = "returned" /\ last.op # "wrap_with"
            /\ last.pre.writer_index = 0 /\ writer_index > 0)
           => last.op \in {"write", "write_bytes", "set_writer_index", "set_index"}

\* a fresh BufViewMut over a buffer with bytes in it
C13_Witness ==
    /\ Returned("wrap")
    /\ kind = "BufViewMut"
    /\ Len(buf) >= 2
    /\ writer_index = 0

\* a fresh BufView over a buffer with bytes in it
C13_WitnessView ==
    /\ Returned("wrap")
    /\ kind = "BufView"
    /\ Len(buf) >= 2
    /\ writer_index = Len(buf)

\* the sequential and random reads of the view's own kind
read_on(view, T, order, oc) ==
    IF kind = "BufView" THEN BufView_read(view, T, order, oc)
                        ELSE BufViewMut_read(view, T, order, oc)

read_bytes_on(view, dest, oc) ==
    IF kind = "BufView" THEN BufView_read_bytes(view, dest, oc)
                        ELSE BufViewMut_read_bytes(view, dest, oc)

get_on(view, index, T, order, oc) ==
    IF kind = "BufView" THEN BufView_get(view, index, T, order, oc)
                        ELSE BufViewMut_get(view, index, T, order, oc)

remaining_on(view) ==
    IF kind = "BufView" THEN BufView_remaining(view) ELSE BufViewMut_remaining(view)

\* C14: clear() always returns, sets both cursors to 0 and changes no byte:
\* afterwards remaining() is 0, every sequential read of width >= 1 faults,
\* and every get at an offset returns what it returned before the clear.
C14_Clear ==
    Called("clear") =>
        /\ ~last.fault
        /\ reader_index = 0
        /\ writer_index = 0
        /\ buf = last.pre.buf
        /\ remaining_on(self) = [val |-> 0, ovf |-> FALSE]
        /\ \A T \in Types, oc \in BOOLEAN : \A order \in OrdersOf(T) :
               read_on(self, T, order, oc).fault
        /\ \A dest \in Dests, oc \in BOOLEAN :
               Len(dest) >= 1 => read_bytes_on(self, dest, oc).fault
        /\ \A T \in Types, index \in Indexes, oc \in BOOLEAN : \A order \in OrdersOf(T) :
               LET now == get_on(self, index, T, order, oc)
                   was == get_on(last.pre, index, T, order, oc)
               IN  now.fault = was.fault /\ now.ret = was.ret

\* clear() on a view that had bytes to read and had read some
C14_Witness ==
    /\ Returned("clear")
    /\ last.pre.reader_index > 0
    /\ last.pre.writer_index > last.pre.reader_index
    /\ ~get_on(self, 1, "u16", "be", TRUE).fault

\* C15: set_reader_index(i) returns exactly when i <= writer_index,
\* set_writer_index(i) exactly when reader_index <= i <= capacity, and
\* set_index(r, w) exactly when r <= w <= capacity whatever the cursors are;
\* a call that returns changes the named cursor(s) only, and any other call
\* faults.
C15_CursorSetters ==
    /\ Called("set_reader_index") =>
        /\ last.fault <=> ~(last.index <= last.pre.writer_index)
        /\ ~last.fault =>
            /\ reader_index = last.index
            /\ writer_index = last.pre.writer_index
            /\ buf = last.pre.buf
    /\ Called("set_writer_index") =>
        /\ last.fault <=> ~(last.pre.reader_index <= last.index
                            /\ last.index <= Len(last.pre.buf))
        /\ ~last.fault =>
            /\ writer_index = last.index
            /\ reader_index = last.pre.reader_index
            /\ buf = last.pre.buf
    /\ Called("set_index") =>
        /\ last.fault <=> ~(last.index <= last.arg /\ last.arg <= Len(last.pre.buf))
        /\ ~last.fault =>
            /\ reader_index = last.index
            /\ writer_index = last.arg
            /\ buf = last.pre.buf

\* set_index(r, w) returned with both cursors moved backwards
C15_Witness ==
    /\ Returned("set_index")
    /\ reader_index < last.pre.reader_index
    /\ writer_index < last.pre.writer_index
    /\ reader_index < writer_index

\* set_reader_index past writer_index, within the capacity, faulted
C15_WitnessFault ==
    /\ Called("set_reader_index")
    /\ last.fault
    /\ last.index > last.pre.writer_index
    /\ last.index <= Len(last.pre.buf)

\* how many consecutive read_u8() calls return on the view, trying at most
\* fuel of them
RECURSIVE ReadsU8(_, _, _)
ReadsU8(view, oc, fuel) ==
    IF fuel = 0 THEN 0
    ELSE LET res == read_on(view, "u8", "be", oc)
         IN  IF res.fault THEN 0
             ELSE 1 + ReadsU8(View(res.buf, res.reader_index, res.writer_index),
                              oc, fuel - 1)

\* C16: in every reachable state remaining() is writer_index - reader_index,
\* a value in 0..capacity that never underflows, and exactly remaining()
\* consecutive read_u8() calls return before the next one faults.
C16_Remaining ==
    /\ pc \in {"live", "returned"} =>
        /\ remaining_on(self) =
               [val |-> writer_index - reader_index, ovf |-> FALSE]
        /\ writer_index - reader_index \in 0..Len(buf)
        /\ \A oc \in BOOLEAN :
               ReadsU8(self, oc, Len(buf) + 1) = writer_index - reader_index
    /\ Called("remaining") =>
        /\ ~last.fault
        /\ last.ret = last.pre.writer_index - last.pre.reader_index
        /\ buf = last.pre.buf
        /\ reader_index = last.pre.reader_index
        /\ writer_index = last.pre.writer_index

\* remaining() returned 2 on a view whose reader_index is not 0 and whose
\* writer_index is not the capacity
C16_Witness ==
    /\ Returned("remaining")
    /\ last.ret = 2
    /\ reader_index > 0
    /\ writer_index < Len(buf)
    /\ ReadsU8(self, TRUE, Len(buf) + 1) = 2

\* the coefficient of 256^d in the bits of a value of type T (two's
\* complement for a negative one)
Digit256(T, val, d) ==
    IF size_of(T) = 1 THEN val % 256
    ELSE LET k == size_of(T) \div 2
             limbs == IF k = 1 THEN <<val>> ELSE val
             l == limbs[k - (d \div 2)] % 65536
         IN  IF d % 2 = 0 THEN l % 256 ELSE l \div 256

\* val is a value of type T: its most significant part carries the sign
InRange(T, val) ==
    IF size_of(T) = 1
    THEN IF is_signed(T) THEN val \in -128..127 ELSE val \in 0..255
    ELSE LET k == size_of(T) \div 2
             limbs == IF k = 1 THEN <<val>> ELSE val
         IN  /\ Len(limbs) = k
             /\ \A j \in 1..k :
                    IF j = 1 /\ is_signed(T) THEN limbs[j] \in -32768..32767
                                             ELSE limbs[j] \in 0..65535

\* the bytes b0..b(n-1) at pos in bytes are those of val in the given order:
\* b_i is the coefficient of 256^(n-1-i) for "be" and of 256^i for "le"
InOrder(T, order, val, bytes, pos) ==
    LET n == size_of(T)
    IN  \A i \in 0..(n - 1) :
            bytes[pos + i + 1] =
                Digit256(T, val, IF order = "be" THEN n - 1 - i ELSE i)

OtherOrder(order) == IF order = "be" THEN "le" ELSE "be"

\* C17: the default read_<T>/get_<T> returns the big-endian value of the
\* bytes at the decoded position and the _le variant the little-endian value
\* (signed types by two's complement of the same bits); write_<T>/set_<T>
\* store the bytes of v in exactly the reverse order of their _le variants.
\* On [0,1,2,3,4,5,6] wrapped with cursors 1 and 5, read_u32() is 0x01020304.
C17_ByteOrder ==
    /\ Returned("read") =>
        /\ InRange(last.typ, last.ret)
        /\ InOrder(last.typ, last.order, last.ret, last.pre.buf,
                   last.pre.reader_index)
    /\ Returned("get") =>
        /\ InRange(last.typ, last.ret)
        /\ InOrder(last.typ, last.order, last.ret, last.pre.buf, last.index)
    /\ Returned("write") =>
        LET pos == last.pre.writer_index
            n == size_of(last.typ)
        IN  /\ InOrder(last.typ, last.order, last.arg, buf, pos)
            /\ n >= 2 => \A oc \in BOOLEAN :
                   LET other == BufViewMut_write(last.pre, last.typ,
                                    OtherOrder(last.order), last.arg, oc)
                   IN  /\ ~other.fault
                       /\ slice(other.buf, pos, pos + n) =
                              Reverse(slice(buf, pos, pos + n))
    /\ Returned("set") =>
        LET pos == last.index
            n == size_of(last.typ)
        IN  /\ InOrder(last.typ, last.order, last.arg, buf, pos)
            /\ n >= 2 => \A oc \in BOOLEAN :
                   LET other == BufViewMut_set(last.pre, pos, last.typ,
                                    OtherOrder(last.order), last.arg, oc)
                   IN  /\ ~other.fault
                       /\ slice(other.buf, pos, pos + n) =
                              Reverse(slice(buf, pos, pos + n))
    /\ pc = "new" => \A oc \in BOOLEAN :
           LET res == BufView_read(View(<<0, 1, 2, 3, 4, 5, 6>>, 1, 5),
                                   "u32", "be", oc)
           IN  ~res.fault /\ res.ret = <<258, 772>> /\ res.reader_index = 5

\* read_i32_le() returned a negative value from bytes whose big-endian value
\* is positive
C17_Witness ==
    /\ Returned("read")
    /\ last.typ = "i32"
    /\ last.order = "le"
    /\ last.ret[1] < 0
    /\ last.pre.buf[last.pre.reader_index + 1] = 1

\* write_u16(0x01FF) stored 01 FF
C17_WitnessWrite ==
    /\ Returned("write")
    /\ last.typ = "u16"
    /\ last.order = "be"
    /\ last.arg = 511
    /\ slice(buf, last.pre.writer_index, writer_index) = <<1, 255>>

\* the outcome of the last call, as the operations give it
Outcome ==
    [fault |-> last.fault, buf |-> buf, reader_index |-> reader_index,
     writer_index |-> writer_index, ret |-> last.ret]

\* C18: the read, get, cursor and accessor calls of BufViewMut behave as
\* those of BufView: on the same buffer and cursors with the same arguments
\* they return the same value, fault in the same cases and leave the same
\* cursors.
C18_SameSurface ==
    LET pre == last.pre
    IN  /\ Called("read") => \A oc \in BOOLEAN :
               BufViewMut_read(pre, last.typ, last.order, oc) =
                   BufView_read(pre, last.typ, last.order, oc)
        /\ Called("read_bytes") => \A oc \in BOOLEAN :
               BufViewMut_read_bytes(pre, last.arg, oc) =
                   BufView_read_bytes(pre, last.arg, oc)
        /\ Called("get") => \A oc \in BOOLEAN :
               BufViewMut_get(pre, last.index, last.typ, last.order, oc) =
                   BufView_get(pre, last.index, last.typ, last.order, oc)
        /\ Called("get_bytes") => \A oc \in BOOLEAN :
               BufViewMut_get_bytes(pre, last.index, last.arg, oc) =
                   BufView_get_bytes(pre, last.index, last.arg, oc)
        /\ Called("set_reader_index") =>
               /\ BufViewMut_set_reader_index(pre, last.index) =
                      BufView_set_reader_index(pre, last.index)
               /\ Outcome = BufView_set_reader_index(pre, last.index)
        /\ Called("set_writer_index") =>
               /\ BufViewMut_set_writer_index(pre, last.index) =
                      BufView_set_writer_index(pre, last.index)
               /\ Outcome = BufView_set_writer_index(pre, last.index)
        /\ Called("set_index") =>
               /\ BufViewMut_set_index(pre, last.index, last.arg) =
                      BufView_set_index(pre, last.index, last.arg)
               /\ Outcome = BufView_set_index(pre, last.index, last.arg)
        /\ Called("clear") =>
               /\ BufViewMut_clear(pre) = BufView_clear(pre)
               /\ Outcome = BufView_clear(pre)
        /\ Called("remaining") =>
               /\ BufViewMut_remaining(pre) = BufView_remaining(pre)
               /\ Outcome = Ok(pre, BufView_remaining(pre).val)
        /\ Called("capacity") =>
               /\ BufViewMut_capacity(pre) = BufView_capacity(pre)
               /\ Outcome = Ok(pre, BufView_capacity(pre))
        /\ Called("reader_index") =>
               /\ BufViewMut_reader_index(pre) = BufView_reader_index(pre)
               /\ Outcome = Ok(pre, BufView_reader_index(pre))
        /\ Called("writer_index") =>
               /\ BufViewMut_writer_index(pre) = BufView_writer_index(pre)
               /\ Outcome = Ok(pre, BufView_writer_index(pre))
        /\ (Called("read") \/ Called("read_bytes") \/ Called("get")
                \/ Called("get_bytes")) =>
               \E oc \in BOOLEAN :
                   Outcome =
                       CASE last.op = "read" ->
                                BufView_read(pre, last.typ, last.order, oc)
                         [] last.op = "read_bytes" ->
                                BufView_read_bytes(pre, last.arg, oc)
                         [] last.op = "get" ->
                                BufView_get(pre, last.index, last.typ, last.order, oc)
                         [] last.op = "get_bytes" ->
                                BufView_get_bytes(pre, last.index, last.arg, oc)

\* a BufViewMut returned from read_bytes with bytes still to read
C18_Witness ==
    /\ Returned("read_bytes")
    /\ kind = "BufViewMut"
    /\ Len(last.arg) = 2
    /\ reader_index < writer_index

\* set_reader_index faulted on a BufViewMut for an index within the capacity
C18_WitnessFault ==
    /\ Called("set_reader_index")
    /\ kind = "BufViewMut"
    /\ last.fault
    /\ last.index <= Len(buf)

\* the view an operation leaves
After(res) == View(res.buf, res.reader_index, res.writer_index)

\* every value read back so far is the value written at the same place in
\* the order of the writes, and no read has faulted
FifoReadBack ==
    /\ pc \in {"writing", "reading"} =>
        /\ Len(journal.read) <= Len(journal.written)
        /\ \A i \in 1..Len(journal.read) :
               journal.read[i] = journal.written[i].val
        /\ Len(journal.read) = Len(journal.written) =>
               BufViewMut_remaining(self) = [val |-> 0, ovf |-> FALSE]
    /\ pc = "fault" => last.op \in {"write", "write_bytes"}

\* get of the type of written value i, at the offset it was written to,
\* returns that value
FifoGetAgrees(i) ==
    LET e == journal.written[i]
    IN  \A oc \in BOOLEAN :
            IF e.typ = "bytes"
            THEN LET res == BufViewMut_get_bytes(self, e.at,
                                [k \in 1..Len(e.val) |-> 0], oc)
                 IN  ~res.fault /\ res.ret = Copied(Len(e.val), e.val)
            ELSE LET res == BufViewMut_get(self, e.at, e.typ, e.order, oc)
                 IN  ~res.fault /\ res.ret = e.val

\* test_buf_view_mut: 16 zero bytes, wrap, write_u8(8), write_u16(16),
\* write_u32(32), write_bytes([1, 2, 3, 4]), then the reads and the gets
ScenarioC ==
    \A oc \in BOOLEAN :
        LET v0 == After(BufViewMut_wrap([i \in 1..16 |-> 0]))
            w1 == BufViewMut_write(v0, "u8", "be", 8, oc)
            w2 == BufViewMut_write(After(w1), "u16", "be", 16, oc)
            w3 == BufViewMut_write(After(w2), "u32", "be", <<0, 32>>, oc)
            w4 == BufViewMut_write_bytes(After(w3), <<1, 2, 3, 4>>, oc)
            r1 == BufViewMut_read(After(w4), "u8", "be", oc)
            r2 == BufViewMut_read(After(r1), "u16", "be", oc)
            r3 == BufViewMut_read(After(r2), "u32", "be", oc)
            r4 == BufViewMut_read_bytes(After(r3), <<0, 0, 0, 0>>, oc)
            end == After(r4)
        IN  /\ ~w1.fault /\ ~w2.fault /\ ~w3.fault /\ ~w4.fault
            /\ ~r1.fault /\ r1.ret = 8
            /\ ~r2.fault /\ r2.ret = 16
            /\ ~r3.fault /\ r3.ret = <<0, 32>>
            /\ ~r4.fault /\ r4.ret = Copied(4, <<1, 2, 3, 4>>)
            /\ BufViewMut_remaining(end) = [val |-> 0, ovf |-> FALSE]
            /\ BufViewMut_get(end, 0, "u8", "be", oc).ret = 8
            /\ BufViewMut_get(end, 1, "u16", "be", oc).ret = 16
            /\ BufViewMut_get(end, 3, "u32", "be", oc).ret = <<0, 32>>

C20_FaultHasNoEffect ==
    (pc = "fault" /\ last.op \notin {"wrap", "wrap_with"}) =>
        /\ last.fault
        /\ buf = last.pre.buf
        /\ reader_index = last.pre.reader_index
        /\ writer_index = last.pre.writer_index

\* write_bytes faulted on a src whose first byte would have fitted
C20_Witness ==
    /\ Called("write_bytes")
    /\ last.fault
    /\ last.pre.writer_index < Len(buf)
    /\ last.pre.writer_index + Len(last.arg) > Len(buf)
    /\ buf[last.pre.writer_index + 1] # last.arg[1]

\* a sequential read faulted with fewer bytes left than its width
C20_WitnessRead ==
    /\ Called("read")
    /\ last.fault
    /\ last.typ = "u32"
    /\ last.pre.writer_index - last.pre.reader_index = 2

\* write_bytes_uncheck faulted on a src shorter than the space left
C20_WitnessUncheck ==
    /\ Called("write_bytes_uncheck")
    /\ last.fault
    /\ Len(last.arg) >= 1
    /\ last.pre.writer_index + Len(last.arg) < Len(buf)

as_slice_on(view) ==
    IF kind = "BufView" THEN BufView_as_slice(view) ELSE BufViewMut_as_slice(view)

as_raw_slice_on(view) ==
    IF kind = "BufView" THEN BufView_as_raw_slice(view)
                        ELSE BufViewMut_as_raw_slice(view)

\* the view is what it was before the last call
Untouched ==
    /\ buf = last.pre.buf
    /\ reader_index = last.pre.reader_index
    /\ writer_index = last.pre.writer_index

\* C21: in every reachable state as_slice() exposes exactly the bytes at
\* offsets [reader_index, writer_index), so its length is remaining(), and
\* as_raw_slice() exposes all capacity bytes whatever the cursors are;
\* neither call changes a cursor, and on BufViewMut a store through
\* as_slice() can change only bytes inside [reader_index, writer_index).
C21_Slices ==
    /\ pc = "live" =>
        LET s == as_slice_on(self)
            raw == as_raw_slice_on(self)
        IN  /\ ~s.fault
            /\ Len(s.ret) = remaining_on(self).val
            /\ Len(s.ret) = writer_index - reader_index
            /\ \A i \in 1..Len(s.ret) : s.ret[i] = buf[reader_index + i]
            /\ s.reader_index = reader_index /\ s.writer_index = writer_index
            /\ ~raw.fault
            /\ Len(raw.ret) = Len(buf)
            /\ \A i \in 1..Len(buf) : raw.ret[i] = buf[i]
            /\ raw.reader_index = reader_index /\ raw.writer_index = writer_index
    /\ Called("as_slice") =>
        /\ ~last.fault
        /\ Untouched
        /\ last.ret = as_slice_on(self).ret
    /\ Called("as_raw_slice") =>
        /\ ~last.fault
        /\ Untouched
        /\ last.ret = buf
    /\ Called("as_slice_store") =>
        /\ reader_index = last.pre.reader_index
        /\ writer_index = last.pre.writer_index
        /\ SameOutside(reader_index, writer_index)
        /\ last.fault <=> ~(last.index < writer_index - reader_index)
        /\ last.fault => buf = last.pre.buf
        /\ ~last.fault =>
            /\ buf[reader_index + last.index + 1] = last.arg
            /\ SameOutside(reader_index + last.index, reader_index + last.index + 1)

\* as_slice() returned two bytes from the middle of the buffer
C21_Witness ==
    /\ Returned("as_slice")
    /\ reader_index > 0
    /\ writer_index < Len(buf)
    /\ Len(last.ret) = 2
    /\ last.ret[1] # buf[1]

\* a store through as_slice() changed the last readable byte of a BufViewMut
C21_WitnessStore ==
    /\ Returned("as_slice_store")
    /\ reader_index > 0
    /\ writer_index < Len(buf)
    /\ last.index = writer_index - reader_index - 1
    /\ buf # last.pre.buf

\* index + n does not fit usize and, taken modulo 2^UsizeBits, is no more
\* than the capacity
WrapsInside(index, n, capacity) ==
    /\ index + n > UsizeMax
    /\ (index + n) % UsizeMod <= capacity

\* the operation faulted on the view and left it as it was
FaultedUntouched(view, res) ==
    /\ res.fault
    /\ res.ret = "panic"
    /\ res.buf = view.buf
    /\ res.reader_index = view.reader_index
    /\ res.writer_index = view.writer_index

\* C22: with index + n computed modulo 2^w, get_<T>(index), set_<T>(index, v)
\* and set_bytes(index, src) still fault for every index with
\* index + n > capacity in true integer arithmetic, also when index + n
\* wraps around to a value <= capacity; no byte is read or written and no
\* cursor changes.
C22_WrappedIndex ==
    /\ (Called("get") /\ last.index + size_of(last.typ) > Len(last.pre.buf)) =>
        /\ last.fault /\ last.ret = "panic" /\ Untouched
        /\ \A oc \in BOOLEAN :
               /\ FaultedUntouched(last.pre,
                      BufView_get(last.pre, last.index, last.typ, last.order, oc))
               /\ FaultedUntouched(last.pre,
                      BufViewMut_get(last.pre, last.index, last.typ, last.order, oc))
    /\ (Called("set") /\ last.index + size_of(last.typ) > Len(last.pre.buf)) =>
        /\ last.fault /\ Untouched
        /\ \A oc \in BOOLEAN :
               FaultedUntouched(last.pre,
                   BufViewMut_set(last.pre, last.index, last.typ, last.order,
                                  last.arg, oc))
    /\ (Called("set_bytes") /\ last.index + Len(last.arg) > Len(last.pre.buf)) =>
        /\ last.fault /\ Untouched
        /\ \A oc \in BOOLEAN :
               FaultedUntouched(last.pre,
                   BufViewMut_set_bytes(last.pre, last.index, last.arg, oc))

\* get_<T>(index) was called with an index + n that wraps to a value within
\* the capacity, and the build without overflow checks faults on it
C22_Witness ==
    /\ Called("get")
    /\ WrapsInside(last.index, size_of(last.typ), Len(buf))
    /\ size_of(last.typ) = 4
    /\ BufViewMut_get(last.pre, last.index, last.typ, last.order, FALSE).fault

\* set_bytes(index, src) likewise
C22_WitnessSetBytes ==
    /\ Called("set_bytes")
    /\ WrapsInside(last.index, Len(last.arg), Len(buf))
    /\ Len(last.arg) >= 2
    /\ last.fault

\* no sequential operation of one byte or more returns on the view
SeqExhausted ==
    /\ \A T \in Types, oc \in BOOLEAN : \A order \in OrdersOf(T) :
           read_on(self, T, order, oc).fault
    /\ \A dest \in Dests, oc \in BOOLEAN :
           Len(dest) >= 1 => read_bytes_on(self, dest, oc).fault
    /\ kind = "BufViewMut" =>
        /\ \A T \in WriteTypes, oc \in BOOLEAN :
               \A order \in OrdersOf(T), val \in Values(T) :
                   BufViewMut_write(self, T, order, val, oc).fault
        /\ \A src \in Srcs, oc \in BOOLEAN :
               Len(src) >= 1 => BufViewMut_write_bytes(self, src, oc).fault

\* what the counts of bytes read and written say about a view that has only
\* been read and written sequentially
SeqBounds ==
    (kind # "none" /\ pc \in {"live", "fault"}) =>
        /\ reader_index = journal.w0 - journal.left0 + journal.got
        /\ writer_index = journal.w0 + journal.wrote
        /\ journal.got <= journal.left0 + journal.wrote
        /\ journal.wrote <= Len(buf) - journal.w0
        /\ journal.ops <= journal.got + journal.wrote
        /\ journal.ops <= journal.left0 + 2 * (Len(buf) - journal.w0)
        /\ (journal.wrote = Len(buf) - journal.w0
                /\ journal.got = journal.left0 + journal.wrote) => SeqExhausted

\* no step moves a cursor backwards or changes the capacity
SeqMonotone ==
    /\ reader_index' >= reader_index
    /\ writer_index' >= writer_index
    /\ Len(buf') = Len(buf)

\* C23: reading never reclaims backing space.  Over any sequence of
\* sequential reads and writes, with no cursor setter and no clear,
\* reader_index and writer_index never decrease, the bytes read never exceed
\* the initial remaining() plus the bytes written, and the bytes written
\* never exceed capacity minus the initial writer_index however many bytes
\* have been read; so only finitely many sequential operations of one byte
\* or more return before every further one faults.
C23_NoReclaim == []SeqBounds /\ [][SeqMonotone]_vars

\* the space behind writer_index was used up, every byte was read back, and
\* a further write faulted although nothing was left to read
C23_Witness ==
    /\ pc = "fault"
    /\ last.op = "write"
    /\ journal.wrote >= 2
    /\ journal.wrote = Len(buf) - journal.w0
    /\ journal.got = journal.left0 + journal.wrote
    /\ journal.left0 >= 1
    /\ journal.ops >= 3

\* C24: the std::io::Write adapter of BufViewMut never reports an error:
\* write(buf) returns Ok(k) with k and the effect on the buffer those of
\* write_bytes_uncheck(buf) (the first min(len(buf), capacity - writer_index)
\* bytes stored at writer_index), leaves both cursors unchanged and returns
\* Ok(0) when writer_index == capacity; flush() returns Ok(()) and changes
\* nothing.
C24_IoWrite ==
    /\ Called("io_write") =>
        LET w == last.pre.writer_index
            k == Min(Len(last.arg), Len(last.pre.buf) - w)
        IN  /\ ~last.fault
            /\ last.ret = IoOk(k)
            /\ slice(buf, w, w + k) = slice(last.arg, 0, k)
            /\ SameOutside(w, w + k)
            /\ reader_index = last.pre.reader_index
            /\ writer_index = w
            /\ w = Len(last.pre.buf) => last.ret = IoOk(0)
    /\ Called("io_flush") =>
        /\ ~last.fault
        /\ last.ret = IoOk(Unit)
        /\ Untouched

\* what does hold of the adapter: write(buf) does what write_bytes_uncheck
\* does, panic included, and returns Ok(0) on a full view; flush is Ok(())
C24_IoWriteAsUncheck ==
    /\ Called("io_write") =>
        /\ \E oc \in BOOLEAN :
               LET res == BufViewMut_write_bytes_uncheck(last.pre, last.arg, oc)
               IN  /\ last.fault = res.fault
                   /\ buf = res.buf
                   /\ ~res.fault => last.ret = IoOk(res.ret)
        /\ reader_index = last.pre.reader_index
        /\ writer_index = last.pre.writer_index
        /\ last.pre.writer_index = Len(last.pre.buf) =>
               ~last.fault /\ last.ret = IoOk(0) /\ Untouched
        /\ last.fault <=> Len(last.arg) < Len(last.pre.buf) - last.pre.writer_index
    /\ Called("io_flush") =>
        /\ ~last.fault
        /\ last.ret = IoOk(Unit)
        /\ Untouched

get_bytes_on(view, index, dest, oc) ==
    IF kind = "BufView" THEN BufView_get_bytes(view, index, dest, oc)
                        ELSE BufViewMut_get_bytes(view, index, dest, oc)

\* the operation returned ret and left the view as it was
ReturnedUntouched(view, res, ret) ==
    /\ ~res.fault
    /\ res.ret = ret
    /\ res.buf = view.buf
    /\ res.reader_index = view.reader_index
    /\ res.writer_index = view.writer_index

\* C25: the zero-length byte operations at the boundary differ: in any
\* state, reader_index == writer_index == capacity and capacity == 0
\* included, read_bytes(empty dest) returns 0, write_bytes(empty src)
\* returns and set_bytes(capacity, empty src) returns, all without changing
\* any state, whereas get_bytes(capacity, empty dest) faults.
C25_ZeroLength ==
    /\ pc = "live" => \A oc \in BOOLEAN :
        /\ ReturnedUntouched(self, read_bytes_on(self, <<>>, oc), Copied(0, <<>>))
        /\ get_bytes_on(self, Len(buf), <<>>, oc).fault
        /\ kind = "BufViewMut" =>
            /\ ReturnedUntouched(self, BufViewMut_write_bytes(self, <<>>, oc), Unit)
            /\ ReturnedUntouched(self,
                   BufViewMut_set_bytes(self, Len(buf), <<>>, oc), Unit)
    /\ (Called("read_bytes") /\ Len(last.arg) = 0) =>
        ~last.fault /\ last.ret.n = 0 /\ Untouched
    /\ (Called("write_bytes") /\ Len(last.arg) = 0) =>
        ~last.fault /\ Untouched
    /\ (Called("set_bytes") /\ Len(last.arg) = 0 /\ last.index = Len(last.pre.buf)) =>
        ~last.fault /\ Untouched
    /\ (Called("get_bytes") /\ Len(last.arg) = 0 /\ last.index = Len(last.pre.buf)) =>
        last.fault /\ Untouched

\* get_bytes(capacity, empty dest) faulted on a BufViewMut with
\* reader_index == writer_index == capacity
C25_Witness ==
    /\ Called("get_bytes")
    /\ kind = "BufViewMut"
    /\ Len(last.arg) = 0
    /\ last.index = Len(buf)
    /\ Len(buf) >= 1
    /\ reader_index = Len(buf)
    /\ writer_index = Len(buf)
    /\ last.fault

\* set_bytes(0, empty src) returned on a view of capacity 0
C25_WitnessEmptyBuffer ==
    /\ Returned("set_bytes")
    /\ Len(buf) = 0
    /\ Len(last.arg) = 0
    /\ last.index = 0

\* read_bytes(empty dest) returned 0 with nothing left to read
C25_WitnessRead ==
    /\ Returned("read_bytes")
    /\ Len(last.arg) = 0
    /\ reader_index = Len(buf)
    /\ Len(buf) >= 1

====
